---- MODULE Spec2Model ----
(***************************************************************************)
(* Mask storage, point query and compositing core of the SAM2 web          *)
(* application, as implemented by the React front ends of the repository.  *)
(*                                                                         *)
(*   SpecCanvas : the MaskedCanvas component (renderMasks runs started by  *)
(*                its effect, one image load awaited per selected mask).   *)
(*   SpecSeg    : the useImageSegmentation hook with the InteractiveCanvas *)
(*                component (mask generation, mask loading, point clicks). *)
(*   SpecSel    : the selection and colour operations of the hook applied   *)
(*                to a generated batch whose canvases are loaded.          *)
(*   SpecApp    : the frontend2 App with MaskGrid and ImageSelector, its    *)
(*                requests to the backend and the images stored there.     *)
(*   SpecQuery  : getClickedMask as a function of the mask list and the    *)
(*                pointer position, all mask canvases being loaded.        *)
(*   SpecPoll   : one pollForMasks call of MaskSelector; SpecPollLive adds  *)
(*                that every fetch settles and every timer fires.          *)
(*   SpecDialog : useConfirmation as ImageSelector.deleteImage uses it.    *)
(*   SpecToggle : the toggle functions of App and MaskGrid on selections   *)
(*                whose entries carry their colour.                        *)
(***************************************************************************)
EXTENDS Integers, Sequences, FiniteSets, TLC

VARIABLES
    \* ---- MaskedCanvas (props, canvas element, renderMasks runs) ----
    base64Image,      \* prop base64Image: TRUE when a non-empty string
    mcMasks,          \* prop masks: sequence of MaskData
    selectedMaskIds,  \* prop selectedMaskIds: sequence of mask ids
    mounted,          \* the component has rendered once
    runs,             \* renderMasks invocations, oldest first
    canvas,           \* pixel content of the <canvas> element
    \* ---- useImageSegmentation (hook state) ----
    image,            \* ImageData | null: TRUE when an image is set
    masks,            \* MaskData[]: records id, mask, selected, color
    loading,
    error,            \* "null" or the message
    uploads,          \* uploadImage calls awaiting the file/image decode
    pending,          \* generateMasks calls awaiting sam2Api.segmentImage
    nGens,            \* generateMasks calls made so far
    nCalls,           \* requests sent to the segmentation service so far
    lastResponse,     \* outcome of the segmentImage call that settled last
    prevBatch,        \* the mask list replaced by the last setMasks of a batch
    \* ---- InteractiveCanvas (component state) ----
    konvaImage,       \* HTMLImageElement | null: TRUE when loaded
    maskCanvases,     \* mask id -> canvas holding the decoded mask
    loads,            \* loadMasks invocations in progress, oldest first
    nLoads,           \* loadMasks invocations started so far
    lastClick,        \* the last stage click: image pixel read, mask found
    \* ---- getClickedMask called on its own ----
    query,            \* the mask list, the pointer x, and the id returned
    \* ---- frontend2 App (component state), its requests and the image store ----
    imageId,          \* string | null: 0 when null
    currentImage,     \* string | null: TRUE when set
    appMasks,         \* Mask[]: the ids of the masks, in order
    masksOf,          \* the image whose available_masks appMasks holds
    renderedImage,    \* string | null: the image and mask ids it renders
    isLoading,
    appError,         \* TRUE when an error message is shown
    maskSelections,   \* MaskSelectionState: mask id -> absent, on, off
    stored,           \* images the backend holds
    deleted,          \* images the backend has deleted
    cleared,          \* deleted images for which deleteImage cleared the selection
    ops,              \* requests whose response has not been handled yet
    nOps,             \* requests sent so far
    lastRender,       \* the last render request sent
    wasReset,         \* resetApp has run and no upload or load was started since
    lastToggle,       \* the mask toggled last and the selections before that, if
                      \* the selections were not changed otherwise since
    \* ---- MaskSelector.pollForMasks, useConfirmation, toggle of a selection ----
    poll,             \* one pollForMasks call: loop position and counters
    dialog,           \* the confirmation state and the DELETE requests sent
    toggling          \* a selection, and what toggling one mask made of it

canvasVars == <<base64Image, mcMasks, selectedMaskIds, mounted, runs, canvas>>

segVars == <<image, masks, loading, error, uploads, pending, nGens, nCalls, lastResponse,
             prevBatch, konvaImage, maskCanvases, loads, nLoads, lastClick>>

queryVars == <<query>>

appVars == <<imageId, currentImage, appMasks, masksOf, renderedImage, isLoading,
             appError, maskSelections, stored, deleted, cleared, ops, nOps,
             lastRender, wasReset, lastToggle>>

pollVars == <<poll>>
dialogVars == <<dialog>>
toggleVars == <<toggling>>

exceptCanvas == <<segVars, queryVars, appVars, pollVars, dialogVars, toggleVars>>
exceptSeg == <<canvasVars, queryVars, appVars, pollVars, dialogVars, toggleVars>>
exceptQuery == <<canvasVars, segVars, appVars, pollVars, dialogVars, toggleVars>>
exceptApp == <<canvasVars, segVars, queryVars, pollVars, dialogVars, toggleVars>>
exceptPoll == <<canvasVars, segVars, queryVars, appVars, dialogVars, toggleVars>>
exceptDialog == <<canvasVars, segVars, queryVars, appVars, pollVars, toggleVars>>
exceptToggle == <<canvasVars, segVars, queryVars, appVars, pollVars, dialogVars>>

vars == <<canvasVars, segVars, queryVars, appVars, pollVars, dialogVars, toggleVars>>

-----------------------------------------------------------------------------
(* Bounds *)

NPix == 2          \* pixels of the image (a NPix x 1 image, indexed 1..NPix)
MaxMasks == 2      \* masks of an image
MaxSel == 2        \* length of a selectedMaskIds list
MaxRuns == 2       \* effect executions of MaskedCanvas in one behaviour
MaxBatch == 2      \* masks in one segmentation response
NIds == 2          \* distinct values generateId can return
MaxGens == 2       \* generateMasks calls in one behaviour
MaxLoads == 2      \* loadMasks invocations in one behaviour
NImages == 3       \* image ids the backend can hand out
MaxOps == 5        \* requests frontend2 sends in one behaviour
MaxInFlight == 2   \* requests of frontend2 awaiting their response
MaxShows == 4      \* confirmation dialogs opened in one behaviour

Pixels == 1..NPix

-----------------------------------------------------------------------------
(* Pixel buffers and colours *)

Opaque == 255      \* alpha written for a painted pixel
Byte == 255        \* the mask "& 255" of hexToRgb

Transparent == <<0, 0, 0, 0>>

\* ctx.createImageData(width, height): every pixel RGBA = 0,0,0,0
NewImageData == [p \in Pixels |-> Transparent]

\* Hex colour strings without the leading "#", as sequences of hex digits.
NoColor == <<>>
Red == <<15, 15, 0, 0, 0, 0>>
Blue == <<0, 0, 0, 0, 15, 15>>
RedHalf == <<15, 15, 0, 0, 0, 0, 8, 0>>   \* "#ff000080", CSS #rrggbbaa
Colors == {NoColor, Red, Blue, RedHalf}

\* Hex digit k (0 = rightmost) of the number parseInt(hex, 16)
HexDigitAt(hex, k) == IF k < Len(hex) THEN hex[Len(hex) - k] ELSE 0

\* (parseInt(hex, 16) >> 8*b) & 255 for b in 0..3: bits 8b..8b+7 of the value
ByteAt(hex, b) == (16 * HexDigitAt(hex, 2 * b + 1) + HexDigitAt(hex, 2 * b)) % (Byte + 1)

hexToRgb(hex) ==
    IF hex = <<>> THEN <<0, 0, 0>>
    ELSE <<ByteAt(hex, 2), ByteAt(hex, 1), ByteAt(hex, 0)>>

-----------------------------------------------------------------------------
(* MaskData of MaskedCanvas *)

\* Values of a decoded mask pixel (red channel): 1 = part of the mask, 0 = not
GreyLevels == {0, 1}
Bitmaps == [Pixels -> GreyLevels]
EmptyBitmap == [p \in Pixels |-> 0]

\* mask_png: absent/empty, a string that fails to decode, or a decodable image
Pngs == {[kind |-> "none", px |-> EmptyBitmap], [kind |-> "bad", px |-> EmptyBitmap]}
        \cup {[kind |-> "ok", px |-> b] : b \in Bitmaps}

MaskIds == 1..MaxMasks
MissingId == MaxMasks + 1     \* an id no mask of the image has

NoMask == [id |-> 0, mask_png |-> [kind |-> "none", px |-> EmptyBitmap], color |-> NoColor]

\* masks.find(m => m.id === maskId): first match, undefined when there is none
FindMask_Fallback(ms, maskId) ==
    IF \E i \in 1..Len(ms) : ms[i].id = maskId
    THEN ms[CHOOSE i \in 1..Len(ms) :
                 ms[i].id = maskId /\ \A j \in 1..(i - 1) : ms[j].id # maskId]
    ELSE IF ms = <<>> THEN NoMask ELSE ms[1]
RECURSIVE FindMask(_, _)
FindMask(ms, maskId) ==
    IF ms = <<>> THEN NoMask
    ELSE IF Head(ms).id = maskId THEN Head(ms)
    ELSE FindMask(Tail(ms), maskId)

\* if (!mask || !mask.mask_png) continue;
Skipped(ms, maskId) ==
    LET mask == FindMask(ms, maskId)
    IN  mask = NoMask \/ mask.mask_png.kind = "none"

\* const [r, g, b] = mask.color ? hexToRgb(mask.color) : [255, 255, 255];
MaskRgb(mask) ==
    IF mask.color # NoColor THEN hexToRgb(mask.color) ELSE <<255, 255, 255>>

\* body of the pixel loop for one pixel
PaintPixel_KeepAlpha(dst, maskPixel, rgb) ==
    IF maskPixel > 0 THEN <<rgb[1], rgb[2], rgb[3], dst[4]>> ELSE dst
PaintPixel_FirstWins(dst, maskPixel, rgb) ==
    IF maskPixel > 0 /\ dst[4] = 0 THEN <<rgb[1], rgb[2], rgb[3], Opaque>> ELSE dst
PaintPixel_Threshold(dst, maskPixel, rgb) ==
    IF maskPixel > 128 THEN <<rgb[1], rgb[2], rgb[3], Opaque>> ELSE dst
PaintPixel(dst, maskPixel, rgb) ==
    IF maskPixel > 0 THEN <<rgb[1], rgb[2], rgb[3], Opaque>> ELSE dst

\* maskImg.onload: the pixel loop over the whole buffer
PaintMask(out, mask) ==
    [p \in Pixels |-> PaintPixel(out[p], mask.mask_png.px[p], MaskRgb(mask))]

\* the for loop from position i up to its next await: the first position >= i
\* whose mask exists and has PNG data; Len(sel) + 1 when the loop ends
RECURSIVE NextAwait_StopAtNoPng(_, _, _)
NextAwait_StopAtNoPng(ms, sel, i) ==
    IF i > Len(sel) THEN i
    ELSE IF FindMask(ms, sel[i]) = NoMask THEN NextAwait_StopAtNoPng(ms, sel, i + 1)
    ELSE IF FindMask(ms, sel[i]).mask_png.kind = "none" THEN Len(sel) + 1
    ELSE i
RECURSIVE NextAwait_Break(_, _, _)
NextAwait_Break(ms, sel, i) ==
    IF i > Len(sel) THEN i
    ELSE IF Skipped(ms, sel[i]) THEN Len(sel) + 1
    ELSE i
RECURSIVE NextAwait(_, _, _)
NextAwait(ms, sel, i) ==
    IF i > Len(sel) THEN i
    ELSE IF Skipped(ms, sel[i]) THEN NextAwait(ms, sel, i + 1)
    ELSE i

-----------------------------------------------------------------------------
(* useImageSegmentation and InteractiveCanvas: state and helpers *)

IdSpace == 1..NIds            \* the strings generateId can return
NoId == 0                     \* null mask id

NoCanvas == [has |-> FALSE, px |-> EmptyBitmap]
NoCanvases == [id \in IdSpace |-> NoCanvas]

NoResponse == [kind |-> "none", masks |-> <<>>]
NoClick == [pixel |-> 0, found |-> NoId]

\* getClickedMask has not been called on its own
NoQuery == [ms |-> <<>>, x |-> 0, found |-> NoId, asked |-> FALSE]
QueryIdle == query = NoQuery

\* frontend2: null image id, no rendered image, no render request
NoImage == 0
NoRendered == [img |-> NoImage, ids |-> {}]

\* ids a mask of the backend can have
AllMaskIds == 1..MaxMasks

\* maskSelections = {}
NoSelections == [m \in AllMaskIds |-> "absent"]

\* pollForMasks has not been called
NoPoll == [phase |-> "idle", attempts |-> 0, requests |-> 0, last |-> "none"]
PollIdle == poll = NoPoll

\* useConfirmation after construction, no DELETE request sent
NoDialog == [isOpen |-> FALSE, onConfirm |-> NoImage, shows |-> 0, sent |-> <<>>]
DialogIdle == dialog = NoDialog

\* no selection is being toggled
NoToggling == [ms |-> <<>>, sel |-> <<>>, id |-> 0, via |-> "none", n |-> 0,
               once |-> <<>>, twice |-> <<>>]
ToggleIdle == toggling = NoToggling

\* the three small components at rest
OthersIdle == PollIdle /\ DialogIdle /\ ToggleIdle

\* no toggle was the last change of the selections
NoLastToggle == [id |-> NoId, before |-> NoSelections]

\* frontend2 App after construction, no request sent
AppIdle ==
    /\ imageId = NoImage
    /\ currentImage = FALSE
    /\ appMasks = <<>>
    /\ masksOf = NoImage
    /\ renderedImage = NoRendered
    /\ isLoading = FALSE
    /\ appError = FALSE
    /\ maskSelections = NoSelections
    /\ stored = {}
    /\ deleted = {}
    /\ cleared = {}
    /\ ops = <<>>
    /\ nOps = 0
    /\ lastRender = NoRendered
    /\ wasReset = FALSE
    /\ lastToggle = NoLastToggle

\* state of the two components before an image is uploaded
SegIdle ==
    /\ image = FALSE
    /\ masks = <<>>
    /\ loading = FALSE
    /\ error = "null"
    /\ uploads = 0
    /\ pending = 0
    /\ nGens = 0
    /\ nCalls = 0
    /\ lastResponse = NoResponse
    /\ prevBatch = <<>>
    /\ konvaImage = FALSE
    /\ maskCanvases = NoCanvases
    /\ loads = <<>>
    /\ nLoads = 0
    /\ lastClick = NoClick

-----------------------------------------------------------------------------
(* MaskedCanvas: the effect and the renderMasks runs it starts *)

BlankCanvas == [p \in Pixels |-> Transparent]

RunDone(r) == r.idx > Len(r.sel)

\* The effect of MaskedCanvas for the list sel: it returns early without an
\* image or without masks; otherwise it sets canvas.width (which clears the
\* canvas) and calls renderMasks, which runs synchronously up to its first
\* await, or up to putImageData when no listed mask is awaited.
RenderEffect(sel) ==
    /\ Len(runs) < MaxRuns
    /\ selectedMaskIds' = sel
    /\ IF ~base64Image \/ Len(mcMasks) = 0
       THEN UNCHANGED <<runs, canvas>>
       ELSE LET i == NextAwait(mcMasks, sel, 1)
                r == [sel |-> sel, idx |-> i, out |-> NewImageData]
            IN  /\ runs' = Append(runs, r)
                /\ canvas' = IF RunDone(r) THEN r.out ELSE BlankCanvas
    /\ UNCHANGED <<base64Image, mcMasks>>

\* MaskSelector.toggleMask: remove the id when listed, append it otherwise
ToggleMask(prev, maskId) ==
    IF \E i \in 1..Len(prev) : prev[i] = maskId
    THEN SelectSeq(prev, LAMBDA id : id # maskId)
    ELSE Append(prev, maskId)

\* First render of the component with the parent's initial list
Mount(sel) ==
    /\ ~mounted
    /\ mounted' = TRUE
    /\ RenderEffect(sel)

\* A checkbox of MaskSelector is toggled: new list, new render, effect
ToggleRender(maskId) ==
    /\ mounted
    /\ \E i \in 1..Len(mcMasks) : mcMasks[i].id = maskId
    /\ RenderEffect(ToggleMask(selectedMaskIds, maskId))
    /\ UNCHANGED mounted

\* The parent renders again with the same list (enhancedMasks is a fresh
\* array on every render of MaskSelector, so the effect runs again)
Rerender ==
    /\ mounted
    /\ RenderEffect(selectedMaskIds)
    /\ UNCHANGED mounted

\* The image of the mask awaited by run k fires onload (paint) or onerror
\* (skip); the loop then continues to its next await or to putImageData.
MaskImgSettled(k) ==
    /\ k \in 1..Len(runs)
    /\ ~RunDone(runs[k])
    /\ LET r == runs[k]
           mask == FindMask(mcMasks, r.sel[r.idx])
           out2 == IF mask.mask_png.kind = "ok" THEN PaintMask(r.out, mask) ELSE r.out
           r2 == [r EXCEPT !.out = out2, !.idx = NextAwait(mcMasks, r.sel, r.idx + 1)]
       IN  /\ runs' = [runs EXCEPT ![k] = r2]
           /\ canvas' = IF RunDone(r2) THEN out2 ELSE canvas
    /\ UNCHANGED <<base64Image, mcMasks, selectedMaskIds, mounted>>

SelLists == UNION {[1..n -> MaskIds \cup {MissingId}] : n \in 0..MaxSel}

MaskLists ==
    UNION {{ms \in [1..n -> [id : MaskIds, mask_png : Pngs, color : Colors]] :
                \A i \in 1..n : ms[i].id = i} : n \in 0..MaxMasks}

\* no MaskedCanvas is rendered
CanvasIdle ==
    /\ base64Image = FALSE
    /\ mcMasks = <<>>
    /\ selectedMaskIds = <<>>
    /\ mounted = FALSE
    /\ runs = <<>>
    /\ canvas = BlankCanvas

InitCanvas ==
    /\ base64Image \in BOOLEAN
    /\ mcMasks \in MaskLists
    /\ selectedMaskIds = <<>>
    /\ mounted = FALSE
    /\ runs = <<>>
    /\ canvas = BlankCanvas
    /\ SegIdle
    /\ QueryIdle
    /\ AppIdle
    /\ OthersIdle

NextCanvas ==
    \/ \E sel \in SelLists : Mount(sel) /\ UNCHANGED exceptCanvas
    \/ \E maskId \in MaskIds : ToggleRender(maskId) /\ UNCHANGED exceptCanvas
    \/ Rerender /\ UNCHANGED exceptCanvas
    \/ \E k \in 1..MaxRuns : MaskImgSettled(k) /\ UNCHANGED exceptCanvas

SpecCanvas == InitCanvas /\ [][NextCanvas]_vars

-----------------------------------------------------------------------------
(* useImageSegmentation: uploadImage, generateMasks, toggleMaskSelection, reset *)

StageWidth == 800             \* width of the Konva stage

\* responses of sam2Api.segmentImage: a list of masks, a body with an error
\* field, or a rejected call (network failure, 30 s timeout)
Responses ==
    {[kind |-> "ok", masks |-> b] : b \in UNION {[1..n -> Bitmaps] : n \in 0..MaxBatch}}
    \cup {[kind |-> "error", masks |-> <<>>], [kind |-> "throw", masks |-> <<>>]}

\* response.masks.map((mask, index) => ({id: generateId(), mask, selected: false,
\* color: undefined})), ids[i] being the i-th value generateId returned
NewMasks(rmasks, ids) ==
    [i \in 1..Len(rmasks) |->
        [id |-> ids[i], mask |-> rmasks[i], selected |-> FALSE, color |-> NoColor]]

\* the mask list after generateMasks has handled the response: setMasks(newMasks)
\* when there is no error, no setMasks when the call throws
MasksAfter_NoErrorCheck(prev, response, ids) ==
    IF response.kind \in {"ok", "error"} THEN NewMasks(response.masks, ids) ELSE prev
MasksAfter_Append(prev, response, ids) ==
    IF response.kind = "ok" THEN prev \o NewMasks(response.masks, ids) ELSE prev
MasksAfter(prev, response, ids) ==
    IF response.kind = "ok" THEN NewMasks(response.masks, ids) ELSE prev

\* requests sent once segmentImage has settled: its catch block logs and
\* rethrows, and generateMasks only reports the error
CallsAfter_Retry(calls, response) ==
    IF response.kind = "throw" THEN calls + 1 ELSE calls
CallsAfter(calls, response) == calls

\* the message set by the catch block
ErrorAfter(prev, response) ==
    CASE response.kind = "ok" -> prev
      [] response.kind = "error" -> "response.error"
      [] OTHER -> "Failed to segment image"

\* toggleMaskSelection: prev.map(...)
ToggleSelection_DropOthers(prev, maskId, addToSelection, removeFromSelection) ==
    SelectSeq([i \in 1..Len(prev) |->
                  IF prev[i].id = maskId
                  THEN [prev[i] EXCEPT !.selected = ~removeFromSelection]
                  ELSE prev[i]],
              LAMBDA m : m.id = maskId \/ addToSelection)
ToggleSelection_AddClearsOthers(prev, maskId, addToSelection, removeFromSelection) ==
    [i \in 1..Len(prev) |->
        IF prev[i].id = maskId
        THEN IF removeFromSelection THEN [prev[i] EXCEPT !.selected = FALSE]
             ELSE IF addToSelection THEN [prev[i] EXCEPT !.selected = TRUE]
             ELSE [prev[i] EXCEPT !.selected = ~prev[i].selected]
        ELSE [prev[i] EXCEPT !.selected = FALSE]]
ToggleSelection(prev, maskId, addToSelection, removeFromSelection) ==
    [i \in 1..Len(prev) |->
        IF prev[i].id = maskId
        THEN IF removeFromSelection THEN [prev[i] EXCEPT !.selected = FALSE]
             ELSE IF addToSelection THEN [prev[i] EXCEPT !.selected = TRUE]
             ELSE [prev[i] EXCEPT !.selected = ~prev[i].selected]
        ELSE IF addToSelection THEN prev[i]
             ELSE [prev[i] EXCEPT !.selected = FALSE]]

-----------------------------------------------------------------------------
(* InteractiveCanvas: loadMasks and getClickedMask *)

\* the component is rendered by App only while an image is set
CanvasMounted == image

\* the effect on [masks]: a new loadMasks invocation when the list is not
\* empty and the component is mounted; it awaits the image of its first mask
LoadsAfter(ls, ms, isMounted) ==
    IF isMounted /\ Len(ms) > 0
    THEN Append(ls, [masks |-> ms, pos |-> 1, map |-> NoCanvases])
    ELSE ls

StartsLoad(ms, isMounted) == isMounted /\ Len(ms) > 0

MaxOf(S) == CHOOSE k \in S : \A j \in S : j <= k

\* number of pixels of the bitmap that are set
Area(bitmap) == Cardinality({p \in Pixels : bitmap[p] > 0})

Min2(a, b) == IF a < b THEN a ELSE b
Max2(a, b) == IF a > b THEN a ELSE b

\* Math.floor((x / 800) * (konvaImage?.width || 800))
ImageX(x) == (x * NPix) \div StageWidth

\* the scan of getClickedMask from position i downwards
RECURSIVE ScanDown(_, _, _, _)
ScanDown(ms, canvases, pixel, i) ==
    IF i < 1 THEN NoId
    ELSE LET c == canvases[ms[i].id]
         IN  IF ~c.has THEN ScanDown(ms, canvases, pixel, i - 1)
             ELSE IF c.px[pixel] > 0 THEN ms[i].id
             ELSE ScanDown(ms, canvases, pixel, i - 1)

RECURSIVE ScanUp(_, _, _, _)
ScanUp(ms, canvases, pixel, i) ==
    IF i > Len(ms) THEN NoId
    ELSE LET c == canvases[ms[i].id]
         IN  IF ~c.has THEN ScanUp(ms, canvases, pixel, i + 1)
             ELSE IF c.px[pixel] > 0 THEN ms[i].id
             ELSE ScanUp(ms, canvases, pixel, i + 1)

\* pixel (1..NPix) read for pointer position x: the image coordinate clamped
\* to the mask canvas
ClickPixel(x) == Max2(0, Min2(ImageX(x), NPix - 1)) + 1

\* getClickedMask(x, y)
GetClickedMask_SmallestFirst(ms, canvases, x) ==
    LET I == {i \in 1..Len(ms) :
                 canvases[ms[i].id].has /\ canvases[ms[i].id].px[ClickPixel(x)] > 0}
    IN  IF I = {} THEN NoId
        ELSE ms[MaxOf({i \in I : \A j \in I : Area(ms[i].mask) <= Area(ms[j].mask)})].id
GetClickedMask_Forward(ms, canvases, x) == ScanUp(ms, canvases, ClickPixel(x), 1)
GetClickedMask(ms, canvases, x) == ScanDown(ms, canvases, ClickPixel(x), Len(ms))

\* uploadImage up to its first await
UploadStart ==
    /\ ~image /\ uploads = 0
    /\ uploads' = 1
    /\ loading' = TRUE
    /\ error' = "null"
    /\ UNCHANGED <<image, masks, pending, nGens, nCalls, lastResponse, prevBatch,
                   konvaImage, maskCanvases, loads, nLoads, lastClick>>

\* the file and image decode settle: setImage, or the catch block; App then
\* renders InteractiveCanvas, whose effects run for the first time
UploadSettle(ok) ==
    /\ uploads > 0
    /\ uploads' = uploads - 1
    /\ loading' = FALSE
    /\ IF ok
       THEN /\ image' = TRUE
            /\ error' = error
            /\ ~image /\ StartsLoad(masks, TRUE) => nLoads < MaxLoads
            /\ loads' = IF image THEN loads ELSE LoadsAfter(loads, masks, TRUE)
            /\ nLoads' = IF ~image /\ StartsLoad(masks, TRUE) THEN nLoads + 1 ELSE nLoads
       ELSE /\ error' = "Failed to load image"
            /\ UNCHANGED <<image, loads, nLoads>>
    /\ UNCHANGED <<masks, pending, nGens, nCalls, lastResponse, prevBatch,
                   konvaImage, maskCanvases, lastClick>>

\* img.onload of the main image: setKonvaImage
KonvaImageLoaded ==
    /\ image /\ ~konvaImage
    /\ konvaImage' = TRUE
    /\ UNCHANGED <<image, masks, loading, error, uploads, pending, nGens, nCalls,
                   lastResponse, prevBatch, maskCanvases, loads, nLoads, lastClick>>

\* generateMasks up to its await of sam2Api.segmentImage
GenerateStart ==
    /\ image
    /\ nGens < MaxGens
    /\ nGens' = nGens + 1
    /\ nCalls' = nCalls + 1
    /\ pending' = pending + 1
    /\ loading' = TRUE
    /\ error' = "null"
    /\ UNCHANGED <<image, masks, uploads, lastResponse, prevBatch,
                   konvaImage, maskCanvases, loads, nLoads, lastClick>>

\* segmentImage settles with the given response; generateMasks runs to its end
GenerateSettle(response, ids) ==
    /\ pending > 0
    /\ pending' = pending - 1
    /\ nCalls' = CallsAfter(nCalls, response)
    /\ lastResponse' = response
    /\ masks' = MasksAfter(masks, response, ids)
    /\ error' = ErrorAfter(error, response)
    /\ loading' = FALSE
    /\ IF response.kind = "ok"
       THEN /\ prevBatch' = masks
            /\ StartsLoad(masks', CanvasMounted) => nLoads < MaxLoads
            /\ loads' = LoadsAfter(loads, masks', CanvasMounted)
            /\ nLoads' = IF StartsLoad(masks', CanvasMounted) THEN nLoads + 1 ELSE nLoads
       ELSE UNCHANGED <<prevBatch, loads, nLoads>>
    /\ UNCHANGED <<image, uploads, nGens, konvaImage, maskCanvases, lastClick>>

\* reset; App stops rendering InteractiveCanvas, whose state is discarded
\* (a loadMasks still running sets the state of an unmounted component)
Reset ==
    /\ image
    /\ image' = FALSE
    /\ masks' = <<>>
    /\ prevBatch' = masks
    /\ error' = "null"
    /\ konvaImage' = FALSE
    /\ maskCanvases' = NoCanvases
    /\ loads' = <<>>
    /\ UNCHANGED <<loading, uploads, pending, nGens, nCalls, lastResponse, nLoads, lastClick>>

\* the image awaited by loadMasks invocation k loads: its canvas is stored in
\* the invocation's map; after the last mask the map replaces maskCanvases
MaskLoaded(k) ==
    /\ k \in 1..Len(loads)
    /\ LET l == loads[k]
           m == l.masks[l.pos]
           map2 == [l.map EXCEPT ![m.id] = [has |-> TRUE, px |-> m.mask]]
           rest == [i \in 1..(Len(loads) - 1) |-> IF i < k THEN loads[i] ELSE loads[i + 1]]
       IN  IF l.pos = Len(l.masks)
           THEN /\ maskCanvases' = map2
                /\ loads' = rest
           ELSE /\ loads' = [loads EXCEPT ![k] = [l EXCEPT !.pos = l.pos + 1, !.map = map2]]
                /\ UNCHANGED maskCanvases
    /\ UNCHANGED <<image, masks, loading, error, uploads, pending, nGens, nCalls,
                   lastResponse, prevBatch, konvaImage, nLoads, lastClick>>

\* the stage is rendered, so a click can reach handleStageClick
StageShown == image /\ konvaImage

\* handleStageClick at pointer position x with the given modifier keys:
\* getClickedMask, then onMaskClick = toggleMaskSelection for the mask found
StageClick(x, shift, right) ==
    /\ StageShown
    /\ LET found == GetClickedMask(masks, maskCanvases, x)
       IN  /\ lastClick' = [pixel |-> ClickPixel(x), found |-> found]
           /\ IF found = NoId
              THEN UNCHANGED <<masks, loads, nLoads>>
              ELSE /\ nLoads < MaxLoads
                   /\ masks' = ToggleSelection(masks, found, shift /\ ~right, shift /\ right)
                   /\ loads' = LoadsAfter(loads, masks', TRUE)
                   /\ nLoads' = nLoads + 1
    /\ UNCHANGED <<image, loading, error, uploads, pending, nGens, nCalls, lastResponse,
                   prevBatch, konvaImage, maskCanvases>>

\* pointer positions: the left edge of every image pixel and the right edge
StageXs == {(k * StageWidth) \div NPix : k \in 0..(NPix - 1)} \cup {StageWidth - 1}

IdLists == UNION {[1..n -> IdSpace] : n \in 0..MaxBatch}

InitSeg ==
    /\ SegIdle
    /\ CanvasIdle
    /\ QueryIdle
    /\ AppIdle
    /\ OthersIdle

NextSeg ==
    \/ UploadStart /\ UNCHANGED exceptSeg
    \/ \E ok \in BOOLEAN : UploadSettle(ok) /\ UNCHANGED exceptSeg
    \/ KonvaImageLoaded /\ UNCHANGED exceptSeg
    \/ GenerateStart /\ UNCHANGED exceptSeg
    \/ \E response \in Responses : \E ids \in IdLists :
          /\ Len(ids) = Len(response.masks)
          /\ GenerateSettle(response, ids)
          /\ UNCHANGED exceptSeg
    \/ Reset /\ UNCHANGED exceptSeg
    \/ \E k \in 1..MaxLoads : MaskLoaded(k) /\ UNCHANGED exceptSeg
    \/ \E x \in StageXs : \E shift \in BOOLEAN : \E right \in BOOLEAN :
          StageClick(x, shift, right) /\ UNCHANGED exceptSeg

SpecSeg == InitSeg /\ [][NextSeg]_vars

-----------------------------------------------------------------------------
(* getClickedMask as a function of the mask list and the pointer position *)

\* pointer positions handed to getClickedMask: those of the stage, one to the
\* left of it and the first one to the right of it
QueryXs == {0 - 1} \cup StageXs \cup {StageWidth}

\* mask lists as generateMasks stores them, the ids being distinct
QueryLists ==
    UNION {{NewMasks(b, [i \in 1..n |-> i]) : b \in [1..n -> Bitmaps]} : n \in 0..MaxBatch}

\* maskCanvases after loadMasks has run to its end for the list ms
CanvasesOf(ms) ==
    [id \in IdSpace |->
        IF \E i \in 1..Len(ms) : ms[i].id = id
        THEN [has |-> TRUE,
              px |-> ms[MaxOf({i \in 1..Len(ms) : ms[i].id = id})].mask]
        ELSE NoCanvas]

InitQuery ==
    /\ query \in [ms : QueryLists, x : QueryXs, found : {NoId}, asked : {FALSE}]
    /\ CanvasIdle
    /\ SegIdle
    /\ AppIdle
    /\ OthersIdle

\* getClickedMask(x, y) is called and returns
AskQuery ==
    /\ ~query.asked
    /\ query' = [query EXCEPT
                    !.found = GetClickedMask(query.ms, CanvasesOf(query.ms), query.x),
                    !.asked = TRUE]

NextQuery ==
    \/ AskQuery /\ UNCHANGED exceptQuery

SpecQuery == InitQuery /\ [][NextQuery]_vars

-----------------------------------------------------------------------------
(* Selection and colour operations of useImageSegmentation on a loaded batch *)

\* colours offered by the ColorPicker
PaletteColors == {Red, Blue}

\* applyColorToSelected: prev.map(mask => mask.selected ? {...mask, color} : mask)
ApplyColor(prev, color) ==
    [i \in 1..Len(prev) |->
        IF prev[i].selected THEN [prev[i] EXCEPT !.color = color] ELSE prev[i]]

\* clearSelection: prev.map(mask => ({...mask, selected: false}))
Unselect(prev) == [i \in 1..Len(prev) |-> [prev[i] EXCEPT !.selected = FALSE]]

\* handleColorSelect of App: applyColorToSelected(color); the ColorPicker is
\* rendered while there are masks; InteractiveCanvas reloads the new list
ApplyColorToSelected(color) ==
    /\ image /\ Len(masks) > 0
    /\ nLoads < MaxLoads
    /\ masks' = ApplyColor(masks, color)
    /\ loads' = LoadsAfter(loads, masks', CanvasMounted)
    /\ nLoads' = nLoads + 1
    /\ UNCHANGED <<image, loading, error, uploads, pending, nGens, nCalls, lastResponse,
                   prevBatch, konvaImage, maskCanvases, lastClick>>

\* clearSelection, called from the ToolPanel
ClearSelection ==
    /\ image
    /\ StartsLoad(masks, CanvasMounted) => nLoads < MaxLoads
    /\ masks' = Unselect(masks)
    /\ loads' = LoadsAfter(loads, masks', CanvasMounted)
    /\ nLoads' = IF StartsLoad(masks', CanvasMounted) THEN nLoads + 1 ELSE nLoads
    /\ UNCHANGED <<image, loading, error, uploads, pending, nGens, nCalls, lastResponse,
                   prevBatch, konvaImage, maskCanvases, lastClick>>

\* a batch has been generated, its mask canvases are loaded and the stage is
\* shown; loadMasks invocations are counted from here
InitSel ==
    /\ image = TRUE
    /\ masks \in QueryLists
    /\ loading = FALSE
    /\ error = "null"
    /\ uploads = 0
    /\ pending = 0
    /\ nGens = 1
    /\ nCalls = 1
    /\ lastResponse = [kind |-> "ok", masks |-> [i \in 1..Len(masks) |-> masks[i].mask]]
    /\ prevBatch = <<>>
    /\ konvaImage = TRUE
    /\ maskCanvases = CanvasesOf(masks)
    /\ loads = <<>>
    /\ nLoads = 0
    /\ lastClick = NoClick
    /\ CanvasIdle
    /\ QueryIdle
    /\ AppIdle
    /\ OthersIdle

NextSel ==
    \/ \E x \in StageXs : \E shift \in BOOLEAN : \E right \in BOOLEAN :
          StageClick(x, shift, right) /\ UNCHANGED exceptSeg
    \/ \E color \in PaletteColors : ApplyColorToSelected(color) /\ UNCHANGED exceptSeg
    \/ ClearSelection /\ UNCHANGED exceptSeg
    \/ \E k \in 1..MaxLoads : MaskLoaded(k) /\ UNCHANGED exceptSeg

SpecSel == InitSel /\ [][NextSel]_vars

-----------------------------------------------------------------------------
(* frontend2: App, MaskGrid and ImageSelector against the backend API *)

Images == 1..NImages

\* masks the backend holds for image i: ids 1..MaskCount(i), the counts
\* differing between images
MaskCount(i) == 1 + (i % MaxMasks)
MaskIdsOf(i) == 1..MaskCount(i)

\* imageInfo.available_masks
AvailableMasks(i) == [k \in 1..MaskCount(i) |-> k]

SelectedIds(sel) == {m \in AllMaskIds : sel[m] = "on"}

\* masks.findIndex(m => m.id === maskId) !== -1
HasAppMask(ms, maskId) == \E k \in 1..Len(ms) : ms[k] = maskId

\* the new selections of toggleMaskSelection and handleMaskToggle: an absent
\* entry is created selected, an existing one has isSelected negated
Toggled(sel, maskId) ==
    [sel EXCEPT ![maskId] = IF sel[maskId] = "on" THEN "off" ELSE "on"]

\* selectAllState of MaskGrid, kept by updateSelectAllState
SelectAllState(sel, ms) ==
    LET selectedCount == Cardinality(SelectedIds(sel))
    IN  IF selectedCount = 0 THEN "none"
        ELSE IF selectedCount = Len(ms) THEN "all"
        ELSE "some"

\* newSelections of handleSelectAll: one entry per mask of the list
AllSelections(sel, ms) ==
    [m \in AllMaskIds |->
        IF HasAppMask(ms, m)
        THEN IF SelectAllState(sel, ms) # "all" THEN "on" ELSE "off"
        ELSE "absent"]

\* a request awaiting its response; ok: the backend carried it out when it
\* arrived; cur, cMasks, cSel: state captured by the handler's closure
Op(kind, img, ids, ok, cur, cMasks, cSel) ==
    [kind |-> kind, img |-> img, ids |-> ids, ok |-> ok,
     cur |-> cur, cMasks |-> cMasks, cSel |-> cSel]

SimpleOp(kind, img, ok) == Op(kind, img, {}, ok, NoImage, <<>>, NoSelections)

Without(o, k) == [i \in 1..(Len(o) - 1) |-> IF i < k THEN o[i] ELSE o[i + 1]]

CanSend(o, n) == Len(o) < MaxInFlight /\ n < MaxOps

\* renderSelectedMasks(selections) of the render in which imageId was img:
\* the instructions are the selected entries
RenderSends(img, sel) == img # NoImage /\ SelectedIds(sel) # {}

\* render_instructions of the request: every selected entry
RenderIds(img, sel) == SelectedIds(sel)

\* the effects of renderSelectedMasks up to its await, on the operations o
RenderOps(o, img, sel) ==
    IF RenderSends(img, sel)
    THEN Append(o, Op("render", img, RenderIds(img, sel), img \in stored,
                      NoImage, <<>>, NoSelections))
    ELSE o

RenderRequest(last, img, sel) ==
    IF RenderSends(img, sel) THEN [img |-> img, ids |-> RenderIds(img, sel)] ELSE last

\* setRenderedImage(null) when there is an image id and no instruction
RenderedAfter(r, img, sel) ==
    IF img # NoImage /\ SelectedIds(sel) = {} THEN NoRendered ELSE r

\* setMaskSelections(sel); renderSelectedMasks(sel), as a handler's last steps
SelectAndRender(o, img, sel) ==
    /\ RenderSends(img, sel) => nOps < MaxOps /\ Len(o) < MaxInFlight
    /\ maskSelections' = sel
    /\ ops' = RenderOps(o, img, sel)
    /\ nOps' = IF RenderSends(img, sel) THEN nOps + 1 ELSE nOps
    /\ lastRender' = RenderRequest(lastRender, img, sel)
    /\ renderedImage' = RenderedAfter(renderedImage, img, sel)

\* an ImageSelector is rendered: in the upload section or in the editing one
SelectorShown == currentImage \/ ~isLoading

\* images an ImageSelector lists: those a fetchImages call has returned
ListedImages == stored \cup deleted

\* generateMasks(imageBase64) up to its first await; the backend stores the
\* upload under the fresh id n, or fails (n = NoImage)
GenerateMasksStart(n) ==
    /\ ~currentImage /\ ~isLoading
    /\ CanSend(ops, nOps)
    /\ n \in {NoImage} \cup (Images \ (stored \cup deleted))
    /\ isLoading' = TRUE
    /\ appError' = FALSE
    /\ renderedImage' = NoRendered
    /\ maskSelections' = NoSelections
    /\ stored' = IF n = NoImage THEN stored ELSE stored \cup {n}
    /\ ops' = Append(ops, SimpleOp("generate", n, n # NoImage))
    /\ nOps' = nOps + 1
    /\ UNCHANGED <<imageId, currentImage, appMasks, masksOf, deleted, cleared, lastRender>>
    /\ wasReset' = FALSE
    /\ lastToggle' = IF maskSelections' = maskSelections THEN lastToggle ELSE NoLastToggle

\* generateAndStoreMasks settles: the image id is set and getImageInfo is
\* requested, or the catch and finally blocks run
GenerateStored(k, success) ==
    /\ k \in 1..Len(ops) /\ ops[k].kind = "generate"
    /\ success => ops[k].ok
    /\ IF success
       THEN /\ nOps < MaxOps
            /\ imageId' = ops[k].img
            /\ currentImage' = TRUE
            /\ ops' = [ops EXCEPT ![k] = SimpleOp("info", ops[k].img, ops[k].img \in stored)]
            /\ nOps' = nOps + 1
            /\ UNCHANGED <<isLoading, appError>>
       ELSE /\ appError' = TRUE
            /\ isLoading' = FALSE
            /\ ops' = Without(ops, k)
            /\ UNCHANGED <<imageId, currentImage, nOps>>
    /\ UNCHANGED <<appMasks, masksOf, renderedImage, maskSelections, stored, deleted,
                   cleared, lastRender>>
    /\ UNCHANGED wasReset
    /\ lastToggle' = IF maskSelections' = maskSelections THEN lastToggle ELSE NoLastToggle

\* getImageInfo of generateMasks settles: setMasks, or the catch block
GenerateInfoSettled(k, success) ==
    /\ k \in 1..Len(ops) /\ ops[k].kind = "info"
    /\ success => ops[k].ok
    /\ IF success
       THEN /\ appMasks' = AvailableMasks(ops[k].img)
            /\ masksOf' = ops[k].img
            /\ UNCHANGED appError
       ELSE /\ appError' = TRUE
            /\ UNCHANGED <<appMasks, masksOf>>
    /\ isLoading' = FALSE
    /\ ops' = Without(ops, k)
    /\ UNCHANGED <<imageId, currentImage, renderedImage, maskSelections, stored,
                   deleted, cleared, nOps, lastRender>>
    /\ UNCHANGED wasReset
    /\ lastToggle' = IF maskSelections' = maskSelections THEN lastToggle ELSE NoLastToggle

\* loadExistingImage(i) for a listed image, up to its await
LoadExistingStart(i) ==
    /\ SelectorShown
    /\ i \in ListedImages
    /\ CanSend(ops, nOps)
    /\ isLoading' = TRUE
    /\ appError' = FALSE
    /\ ops' = Append(ops, SimpleOp("load", i, i \in stored))
    /\ nOps' = nOps + 1
    /\ UNCHANGED <<imageId, currentImage, appMasks, masksOf, renderedImage,
                   maskSelections, stored, deleted, cleared, lastRender>>
    /\ wasReset' = FALSE
    /\ lastToggle' = IF maskSelections' = maskSelections THEN lastToggle ELSE NoLastToggle

\* getImageInfo of loadExistingImage settles
LoadExistingSettled(k, success) ==
    /\ k \in 1..Len(ops) /\ ops[k].kind = "load"
    /\ success => ops[k].ok
    /\ IF success
       THEN /\ imageId' = ops[k].img
            /\ appMasks' = AvailableMasks(ops[k].img)
            /\ masksOf' = ops[k].img
            /\ currentImage' = TRUE
            /\ renderedImage' = NoRendered
            /\ maskSelections' = NoSelections
            /\ UNCHANGED appError
       ELSE /\ appError' = TRUE
            /\ UNCHANGED <<imageId, appMasks, masksOf, currentImage, renderedImage,
                           maskSelections>>
    /\ isLoading' = FALSE
    /\ ops' = Without(ops, k)
    /\ UNCHANGED <<stored, deleted, cleared, nOps, lastRender>>
    /\ UNCHANGED wasReset
    /\ lastToggle' = IF maskSelections' = maskSelections THEN lastToggle ELSE NoLastToggle

\* the clearing of App state: loadExistingImage(''), resetApp and the inline
\* New Image button
ClearedApp ==
    /\ currentImage' = FALSE
    /\ imageId' = NoImage
    /\ appMasks' = <<>>
    /\ masksOf' = NoImage
    /\ renderedImage' = NoRendered
    /\ maskSelections' = NoSelections

\* resetApp, or the New Image button of the editing section
ResetApp ==
    /\ currentImage
    /\ ClearedApp
    /\ appError' = FALSE
    /\ UNCHANGED <<isLoading, stored, deleted, cleared, ops, nOps, lastRender>>
    /\ wasReset' = TRUE
    /\ lastToggle' = IF maskSelections' = maskSelections THEN lastToggle ELSE NoLastToggle

\* the MaskGrid is rendered
GridShown == currentImage /\ Len(appMasks) > 0

\* MaskGrid.handleMaskToggle(maskId), then App's onSelectionChange
GridToggle(maskId) ==
    /\ GridShown
    /\ HasAppMask(appMasks, maskId)
    /\ SelectAndRender(ops, imageId, Toggled(maskSelections, maskId))
    /\ UNCHANGED <<imageId, currentImage, appMasks, masksOf, isLoading, appError,
                   stored, deleted, cleared>>
    /\ UNCHANGED wasReset
    /\ lastToggle' = [id |-> maskId, before |-> maskSelections]

\* MaskGrid.handleSelectAll, then App's onSelectionChange
GridSelectAll ==
    /\ GridShown
    /\ SelectAndRender(ops, imageId, AllSelections(maskSelections, appMasks))
    /\ UNCHANGED <<imageId, currentImage, appMasks, masksOf, isLoading, appError,
                   stored, deleted, cleared>>
    /\ UNCHANGED wasReset
    /\ lastToggle' = IF maskSelections' = maskSelections THEN lastToggle ELSE NoLastToggle

\* MaskGrid.handleColorChange, setRandomColors, resetToDefaults: the colours
\* of selected entries change, then App's onSelectionChange
GridRecolor ==
    /\ GridShown
    /\ SelectedIds(maskSelections) # {}
    /\ SelectAndRender(ops, imageId, maskSelections)
    /\ UNCHANGED <<imageId, currentImage, appMasks, masksOf, isLoading, appError,
                   stored, deleted, cleared>>
    /\ UNCHANGED wasReset
    /\ lastToggle' = IF maskSelections' = maskSelections THEN lastToggle ELSE NoLastToggle

\* handleImageClick up to its await of getMaskAtPoint; its closure holds the
\* imageId, masks and maskSelections of the render it was created in
ImageClickStart ==
    /\ currentImage /\ imageId # NoImage
    /\ CanSend(ops, nOps)
    /\ ops' = Append(ops, Op("click", imageId, {}, imageId \in stored,
                             imageId, appMasks, maskSelections))
    /\ nOps' = nOps + 1
    /\ UNCHANGED <<imageId, currentImage, appMasks, masksOf, renderedImage, isLoading,
                   appError, maskSelections, stored, deleted, cleared, lastRender>>
    /\ UNCHANGED wasReset
    /\ lastToggle' = IF maskSelections' = maskSelections THEN lastToggle ELSE NoLastToggle

\* getMaskAtPoint settles with result.mask_id = maskId (NoId for null), or
\* fails; toggleMaskSelection(maskId) of the closure runs for a mask id
ImageClickSettled(k, success, maskId) ==
    /\ k \in 1..Len(ops) /\ ops[k].kind = "click"
    /\ success => ops[k].ok
    /\ maskId \in {NoId} \cup MaskIdsOf(ops[k].img)
    /\ IF success /\ maskId # NoId /\ HasAppMask(ops[k].cMasks, maskId)
       THEN SelectAndRender(Without(ops, k), ops[k].img, Toggled(ops[k].cSel, maskId))
       ELSE /\ ops' = Without(ops, k)
            /\ UNCHANGED <<maskSelections, nOps, lastRender, renderedImage>>
    /\ UNCHANGED <<imageId, currentImage, appMasks, masksOf, isLoading, appError,
                   stored, deleted, cleared>>
    /\ UNCHANGED wasReset
    /\ lastToggle' = IF success /\ maskId # NoId /\ HasAppMask(ops[k].cMasks, maskId)
                   THEN [id |-> maskId, before |-> maskSelections]
                   ELSE lastToggle

\* renderMasks settles: setRenderedImage, or setError
RenderSettled(k, success) ==
    /\ k \in 1..Len(ops) /\ ops[k].kind = "render"
    /\ success => ops[k].ok
    /\ IF success
       THEN /\ renderedImage' = [img |-> ops[k].img, ids |-> ops[k].ids]
            /\ UNCHANGED appError
       ELSE /\ appError' = TRUE
            /\ UNCHANGED renderedImage
    /\ ops' = Without(ops, k)
    /\ UNCHANGED <<imageId, currentImage, appMasks, masksOf, isLoading, maskSelections,
                   stored, deleted, cleared, nOps, lastRender>>
    /\ UNCHANGED wasReset
    /\ lastToggle' = IF maskSelections' = maskSelections THEN lastToggle ELSE NoLastToggle

\* ImageSelector.deleteImage(i) confirmed: DELETE /images/i is sent; the
\* closure holds the currentImageId of the render it was created in
DeleteStart(i) ==
    /\ SelectorShown
    /\ i \in ListedImages
    /\ CanSend(ops, nOps)
    /\ stored' = stored \ {i}
    /\ deleted' = IF i \in stored THEN deleted \cup {i} ELSE deleted
    /\ ops' = Append(ops, Op("delete", i, {}, i \in stored, imageId, <<>>, NoSelections))
    /\ nOps' = nOps + 1
    /\ UNCHANGED <<imageId, currentImage, appMasks, masksOf, renderedImage, isLoading,
                   appError, maskSelections, cleared, lastRender>>
    /\ UNCHANGED wasReset
    /\ lastToggle' = IF maskSelections' = maskSelections THEN lastToggle ELSE NoLastToggle

\* the DELETE settles: fetchImages is awaited, or the catch block sets the
\* selector's own error
DeleteSettled(k) ==
    /\ k \in 1..Len(ops) /\ ops[k].kind = "delete"
    /\ ops' = IF ops[k].ok
              THEN [ops EXCEPT ![k] = [ops[k] EXCEPT !.kind = "fetch"]]
              ELSE Without(ops, k)
    /\ UNCHANGED <<imageId, currentImage, appMasks, masksOf, renderedImage, isLoading,
                   appError, maskSelections, stored, deleted, cleared, nOps, lastRender>>
    /\ UNCHANGED wasReset
    /\ lastToggle' = IF maskSelections' = maskSelections THEN lastToggle ELSE NoLastToggle

\* fetchImages of deleteImage has returned: onImageSelect('') when the deleted
\* image is the closure's current one, i.e. the clear branch of loadExistingImage
ImagesRefetched(k) ==
    /\ k \in 1..Len(ops) /\ ops[k].kind = "fetch"
    /\ IF ops[k].cur = ops[k].img
       THEN /\ ClearedApp
            /\ cleared' = cleared \cup {ops[k].img}
       ELSE UNCHANGED <<currentImage, imageId, appMasks, masksOf, renderedImage,
                        maskSelections, cleared>>
    /\ ops' = Without(ops, k)
    /\ UNCHANGED <<isLoading, appError, stored, deleted, nOps, lastRender>>
    /\ UNCHANGED wasReset
    /\ lastToggle' = IF maskSelections' = maskSelections THEN lastToggle ELSE NoLastToggle

\* images the backend holds when the page is opened
StoredAtStart == {1, 2}

InitApp ==
    /\ imageId = NoImage
    /\ currentImage = FALSE
    /\ appMasks = <<>>
    /\ masksOf = NoImage
    /\ renderedImage = NoRendered
    /\ isLoading = FALSE
    /\ appError = FALSE
    /\ maskSelections = NoSelections
    /\ stored = StoredAtStart
    /\ deleted = {}
    /\ cleared = {}
    /\ ops = <<>>
    /\ nOps = 0
    /\ lastRender = NoRendered
    /\ wasReset = FALSE
    /\ lastToggle = NoLastToggle
    /\ CanvasIdle
    /\ SegIdle
    /\ QueryIdle
    /\ OthersIdle

NextApp ==
    \/ \E n \in {NoImage} \cup Images : GenerateMasksStart(n) /\ UNCHANGED exceptApp
    \/ \E k \in 1..MaxInFlight : \E success \in BOOLEAN :
          GenerateStored(k, success) /\ UNCHANGED exceptApp
    \/ \E k \in 1..MaxInFlight : \E success \in BOOLEAN :
          GenerateInfoSettled(k, success) /\ UNCHANGED exceptApp
    \/ \E i \in Images : LoadExistingStart(i) /\ UNCHANGED exceptApp
    \/ \E k \in 1..MaxInFlight : \E success \in BOOLEAN :
          LoadExistingSettled(k, success) /\ UNCHANGED exceptApp
    \/ ResetApp /\ UNCHANGED exceptApp
    \/ \E maskId \in AllMaskIds : GridToggle(maskId) /\ UNCHANGED exceptApp
    \/ GridSelectAll /\ UNCHANGED exceptApp
    \/ GridRecolor /\ UNCHANGED exceptApp
    \/ ImageClickStart /\ UNCHANGED exceptApp
    \/ \E k \in 1..MaxInFlight : \E success \in BOOLEAN : \E maskId \in {NoId} \cup AllMaskIds :
          ImageClickSettled(k, success, maskId) /\ UNCHANGED exceptApp
    \/ \E k \in 1..MaxInFlight : \E success \in BOOLEAN :
          RenderSettled(k, success) /\ UNCHANGED exceptApp
    \/ \E i \in Images : DeleteStart(i) /\ UNCHANGED exceptApp
    \/ \E k \in 1..MaxInFlight : DeleteSettled(k) /\ UNCHANGED exceptApp
    \/ \E k \in 1..MaxInFlight : ImagesRefetched(k) /\ UNCHANGED exceptApp

SpecApp == InitApp /\ [][NextApp]_vars

-----------------------------------------------------------------------------
(* MaskSelector.pollForMasks *)

MaxAttempts == 30

\* what one GET /get-all-masks request can come to: completed with masks,
\* completed without masks, another status, a non-OK response, a rejection
StatusOutcomes == {"completed", "empty", "notCompleted", "notOk", "throw"}

\* the while condition: the next request is sent, or the loop is left and the
\* timeout error is thrown
LoopHead(p) ==
    IF p.attempts < MaxAttempts
    THEN [p EXCEPT !.phase = "fetching", !.requests = @ + 1]
    ELSE [p EXCEPT !.phase = "timeout"]

\* attempts after the catch block of the loop body
AttemptsAfterThrow_Same(attempts) == attempts
AttemptsAfterThrow(attempts) == attempts + 1

\* pollForMasks is called: attempts = 0 and the first pass of the loop
PollStart ==
    /\ poll.phase = "idle"
    /\ poll' = LoopHead(NoPoll)

\* the awaited fetch settles
StatusSettled(outcome) ==
    /\ poll.phase = "fetching"
    /\ poll.requests <= MaxAttempts
    /\ poll' = IF outcome = "completed"
               THEN [poll EXCEPT !.phase = "stored", !.last = outcome]
               ELSE IF outcome = "throw"
               THEN LoopHead([poll EXCEPT !.attempts = AttemptsAfterThrow(@),
                                          !.last = outcome])
               ELSE [poll EXCEPT !.phase = "waiting", !.last = outcome]

\* the two-second timer fires: attempts++ and the next pass of the loop
WaitElapsed ==
    /\ poll.phase = "waiting"
    /\ poll.requests <= MaxAttempts
    /\ poll' = LoopHead([poll EXCEPT !.attempts = @ + 1])

InitPoll ==
    /\ PollIdle
    /\ DialogIdle
    /\ ToggleIdle
    /\ CanvasIdle
    /\ SegIdle
    /\ QueryIdle
    /\ AppIdle

PollSettles == \E outcome \in StatusOutcomes : StatusSettled(outcome) /\ UNCHANGED exceptPoll
PollWaits == WaitElapsed /\ UNCHANGED exceptPoll

NextPoll ==
    \/ PollStart /\ UNCHANGED exceptPoll
    \/ PollSettles
    \/ PollWaits

SpecPoll == InitPoll /\ [][NextPoll]_vars

\* every fetch settles and every timer fires
SpecPollLive == SpecPoll /\ WF_vars(PollSettles) /\ WF_vars(PollWaits)

-----------------------------------------------------------------------------
(* useConfirmation, as ImageSelector.deleteImage uses it *)

\* DELETE requests sent once handleConfirm has called confirmation.onConfirm,
\* the callback of deleteImage for image onConfirm
SentAfterConfirm(sent, onConfirm) ==
    IF onConfirm # NoImage THEN Append(sent, onConfirm) ELSE sent

\* DELETE requests sent once handleCancel has run: deleteImage passes no
\* onCancel
SentAfterCancel_Sends(sent, onConfirm) == Append(sent, onConfirm)
SentAfterCancel(sent, onConfirm) == sent

\* the delete button of image i: deleteImage calls showConfirmation
DeleteClicked(i) ==
    /\ dialog.shows < MaxShows
    /\ dialog' = [dialog EXCEPT !.isOpen = TRUE, !.onConfirm = i, !.shows = @ + 1]

\* the Delete button of the modal
HandleConfirm ==
    /\ dialog.isOpen
    /\ dialog' = [dialog EXCEPT !.sent = SentAfterConfirm(@, dialog.onConfirm),
                                !.isOpen = FALSE]

\* the Cancel button of the modal
HandleCancel ==
    /\ dialog.isOpen
    /\ dialog' = [dialog EXCEPT !.sent = SentAfterCancel(@, dialog.onConfirm),
                                !.isOpen = FALSE]

InitDialog ==
    /\ DialogIdle
    /\ PollIdle
    /\ ToggleIdle
    /\ CanvasIdle
    /\ SegIdle
    /\ QueryIdle
    /\ AppIdle

NextDialog ==
    \/ \E i \in Images : DeleteClicked(i) /\ UNCHANGED exceptDialog
    \/ HandleConfirm /\ UNCHANGED exceptDialog
    \/ HandleCancel /\ UNCHANGED exceptDialog

SpecDialog == InitDialog /\ [][NextDialog]_vars

-----------------------------------------------------------------------------
(* toggleMaskSelection of App and handleMaskToggle of MaskGrid, on selections
   whose entries carry their colour *)

\* defaultColors.length in App and in MaskGrid; the first eight colours of the
\* two palettes are the same
AppDefaultColors == 8
GridDefaultColors == 12

\* defaultColors[maskIndex % defaultColors.length], as its palette slot
DefaultColor(maskIndex, length) == maskIndex % length

\* a colour of the colour picker that is not in the palette
PickedColor == GridDefaultColors

EntryColors == {DefaultColor(k, GridDefaultColors) : k \in 0..(MaxMasks - 1)} \cup {PickedColor}

\* selections[maskId] undefined, and the entries {isSelected, color}
AbsentEntry == [present |-> FALSE, isSelected |-> FALSE, color |-> 0]
Entries == {AbsentEntry} \cup [present : {TRUE}, isSelected : BOOLEAN, color : EntryColors]

\* selections[mask.id]?.isSelected || false
IsSelected(entry) == entry.present /\ entry.isSelected

\* masks.findIndex(m => m.id === maskId), 0-based, -1 when there is none
MaskIndex(ms, maskId) ==
    IF HasAppMask(ms, maskId)
    THEN (CHOOSE k \in 1..Len(ms) : ms[k] = maskId /\ \A j \in 1..(k - 1) : ms[j] # maskId) - 1
    ELSE 0 - 1

\* the new entry of the toggled mask
ToggledEntry(entry, maskIndex, length) ==
    IF ~entry.present
    THEN [present |-> TRUE, isSelected |-> TRUE, color |-> DefaultColor(maskIndex, length)]
    ELSE [entry EXCEPT !.isSelected = ~@]

\* newSelections of App.toggleMaskSelection(maskId)
ToggleMaskSelection(sel, ms, maskId) ==
    IF MaskIndex(ms, maskId) = 0 - 1
    THEN sel
    ELSE [sel EXCEPT ![maskId] = ToggledEntry(@, MaskIndex(ms, maskId), AppDefaultColors)]

\* newSelections of MaskGrid.handleMaskToggle(maskId), maskId being the id of
\* a MaskItem of the list
HandleMaskToggle(sel, ms, maskId) ==
    [sel EXCEPT ![maskId] = ToggledEntry(@, MaskIndex(ms, maskId), GridDefaultColors)]

ToggleVia(via, sel, ms, maskId) ==
    IF via = "grid" THEN HandleMaskToggle(sel, ms, maskId)
    ELSE ToggleMaskSelection(sel, ms, maskId)

\* a first toggle of mask maskId: by a MaskItem of the grid, or by a point
\* click whose lookup returned maskId
ToggleFirst(maskId, via) ==
    /\ toggling.n = 0
    /\ via = "grid" => HasAppMask(toggling.ms, maskId)
    /\ toggling' = [toggling EXCEPT !.id = maskId, !.via = via, !.n = 1,
                                    !.once = ToggleVia(via, toggling.sel, toggling.ms, maskId)]

\* the same toggle once more
ToggleAgain ==
    /\ toggling.n = 1
    /\ toggling' = [toggling EXCEPT !.n = 2,
                                    !.twice = ToggleVia(toggling.via, toggling.once,
                                                        toggling.ms, toggling.id)]

GridMaskLists == {[k \in 1..n |-> k] : n \in 0..MaxMasks}

InitToggle ==
    /\ toggling \in [ms : GridMaskLists, sel : [AllMaskIds -> Entries], id : {0},
                     via : {"none"}, n : {0}, once : {<<>>}, twice : {<<>>}]
    /\ PollIdle
    /\ DialogIdle
    /\ CanvasIdle
    /\ SegIdle
    /\ QueryIdle
    /\ AppIdle

NextToggle ==
    \/ \E maskId \in AllMaskIds : \E via \in {"grid", "click"} :
          ToggleFirst(maskId, via) /\ UNCHANGED exceptToggle
    \/ ToggleAgain /\ UNCHANGED exceptToggle

SpecToggle == InitToggle /\ [][NextToggle]_vars

-----------------------------------------------------------------------------
(* Properties of MaskedCanvas *)

\* mask covers pixel p: its decoded bitmap is set there
Covers(mask, p) == mask.mask_png.kind = "ok" /\ mask.mask_png.px[p] # 0

\* the colour a painted mask leaves on a pixel
MaskRgba(mask) == <<MaskRgb(mask)[1], MaskRgb(mask)[2], MaskRgb(mask)[3], Opaque>>

\* positions of run r whose mask has been painted and covers p
PaintedOver(r, p) ==
    {k \in 1..Len(r.sel) :
        /\ k < r.idx
        /\ Covers(FindMask(mcMasks, r.sel[k]), p)}


RunSet == {runs[k] : k \in 1..Len(runs)}

\* renderMasks as one sequential computation: the buffer it puts on the canvas
RECURSIVE RenderFrom(_, _, _, _)
RenderFrom(ms, sel, i, out) ==
    IF i > Len(sel) THEN out
    ELSE LET mask == FindMask(ms, sel[i])
         IN  RenderFrom(ms, sel, i + 1,
                 IF mask.mask_png.kind = "ok"
                 THEN [p \in Pixels |->
                         IF mask.mask_png.px[p] > 0 THEN MaskRgba(mask) ELSE out[p]]
                 ELSE out)

RenderResult(ms, sel) == RenderFrom(ms, sel, 1, NewImageData)

\* C1: last write wins. In every renderMasks run, a pixel covered by two or
\* more painted masks of the list has the colour of the one that comes last
\* in the list, fully opaque.
C1_LastWriteWins ==
    \A r \in RunSet : \A p \in Pixels :
        Cardinality(PaintedOver(r, p)) >= 2 =>
            r.out[p] = MaskRgba(FindMask(mcMasks, r.sel[MaxOf(PaintedOver(r, p))]))

\* C1 witness: the list [1 red, 2 blue] was rendered to the end, both masks
\* cover pixel 1, and the canvas shows opaque blue there.
C1_Witness ==
    /\ Len(runs) >= 1 /\ RunDone(runs[1]) /\ runs[1].sel = <<1, 2>>
    /\ Len(mcMasks) = 2
    /\ mcMasks[1].color = Red /\ mcMasks[2].color = Blue
    /\ Covers(mcMasks[1], 1) /\ Covers(mcMasks[2], 1)
    /\ canvas[1] = <<0, 0, 255, 255>>

\* C2: in every run's buffer a pixel covered by no painted mask is fully
\* transparent and a pixel covered by a painted mask is opaque in the colour
\* of a painted mask covering it; the buffer has the image's pixels; a run of
\* the empty list ends with an all-transparent buffer; the canvas holds a
\* cleared buffer or the buffer of a finished run.
C2_TransparentElsewhere ==
    /\ \A r \in RunSet :
        /\ DOMAIN r.out = Pixels
        /\ \A p \in Pixels :
             IF PaintedOver(r, p) = {}
             THEN r.out[p] = Transparent
             ELSE \E k \in PaintedOver(r, p) :
                     r.out[p] = MaskRgba(FindMask(mcMasks, r.sel[k]))
        /\ (r.sel = <<>>) => (RunDone(r) /\ r.out = [p \in Pixels |-> Transparent])
    /\ \/ canvas = BlankCanvas
       \/ \E r \in RunSet : RunDone(r) /\ canvas = r.out

\* C2 witness: the list [1] was rendered, mask 1 covers pixel 1 only, and the
\* canvas is coloured at pixel 1 and transparent at pixel 2.
C2_Witness ==
    /\ Len(runs) = 1 /\ RunDone(runs[1]) /\ runs[1].sel = <<1>>
    /\ Covers(mcMasks[1], 1) /\ ~Covers(mcMasks[1], 2)
    /\ canvas[1] = <<255, 0, 0, 255>>
    /\ canvas[2] = Transparent

\* some mask of the image has this id
HasMask(maskId) == \E i \in 1..Len(mcMasks) : mcMasks[i].id = maskId

Listed(sel, maskId) == \E k \in 1..Len(sel) : sel[k] = maskId

\* C4 as stated: a finished render whose list references an id that no mask of
\* the image has rendered no mask at all.
C4_Original ==
    \A r \in RunSet :
        (RunDone(r) /\ \E k \in 1..Len(r.sel) : ~HasMask(r.sel[k])) =>
            r.out = [p \in Pixels |-> Transparent]

\* C4 amended: an id of the list that no mask of the image has is passed over
\* (renderMasks has no error result); the finished buffer is the one the list
\* without such ids gives, so every pixel covered by a valid listed mask is
\* painted.
C4_MissingIdSkipped ==
    \A r \in RunSet :
        RunDone(r) =>
            /\ r.out = RenderResult(mcMasks, SelectSeq(r.sel, HasMask))
            /\ \A p \in Pixels :
                 (\E i \in 1..Len(mcMasks) :
                     Listed(r.sel, mcMasks[i].id) /\ Covers(mcMasks[i], p))
                 => r.out[p][4] = Opaque

\* C4 witness: the list [missing id, 1] was rendered to the end and the canvas
\* shows mask 1's red on the pixel it covers.
C4_Witness ==
    /\ Len(runs) = 1 /\ RunDone(runs[1]) /\ runs[1].sel = <<MissingId, 1>>
    /\ mcMasks[1].color = Red /\ Covers(mcMasks[1], 2)
    /\ canvas[2] = <<255, 0, 0, 255>>

\* no renderMasks run is in progress and the effect has run for the current props
RenderIdle ==
    /\ mounted /\ base64Image /\ Len(mcMasks) > 0
    /\ \A r \in RunSet : RunDone(r)

\* C8 as stated: once every render run has ended, the canvas holds the render
\* of the current list over the (unchanged) masks, whatever the order in which
\* the runs and their image loads completed.
C8_Original == RenderIdle => canvas = RenderResult(mcMasks, selectedMaskIds)

\* the list entry's colour read as RGBA: #rrggbb is opaque, #rrggbbaa carries
\* its own alpha, no colour is the default white
InstrRgba(color) ==
    IF color = NoColor THEN <<255, 255, 255, Opaque>>
    ELSE IF Len(color) = 8
         THEN <<ByteAt(color, 3), ByteAt(color, 2), ByteAt(color, 1), ByteAt(color, 0)>>
         ELSE <<ByteAt(color, 2), ByteAt(color, 1), ByteAt(color, 0), Opaque>>

\* out = src * srcAlpha + dst * (1 - srcAlpha), alpha in 0..255
BlendOver(src, dst) ==
    LET a == src[4]
        ch(c) == (src[c] * a + dst[c] * (Opaque - a)) \div Opaque
    IN  <<ch(1), ch(2), ch(3), a + (dst[4] * (Opaque - a)) \div Opaque>>

\* run k paints the mask it awaits in this step
PaintStep(k) ==
    /\ runs'[k].idx # runs[k].idx
    /\ FindMask(mcMasks, runs[k].sel[runs[k].idx]).mask_png.kind = "ok"

C10_Original ==
    \A r \in RunSet : \A p \in Pixels :
        r.out[p] # Transparent =>
            \E k \in PaintedOver(r, p) : FindMask(mcMasks, r.sel[k]).color # NoColor

\* C10 amended: a pixel is painted only where a mask whose id is in the list
\* covers it, so a mask absent from the list contributes no pixel; a listed
\* mask without a colour is not excluded: it paints opaque white.
C10_OnlyListedPainted ==
    \A r \in RunSet : \A p \in Pixels :
        /\ r.out[p] # Transparent =>
             \E i \in 1..Len(mcMasks) :
                 Listed(r.sel, mcMasks[i].id) /\ Covers(mcMasks[i], p)
        /\ (/\ PaintedOver(r, p) # {}
            /\ FindMask(mcMasks, r.sel[MaxOf(PaintedOver(r, p))]).color = NoColor)
           => r.out[p] = <<255, 255, 255, 255>>

\* C10 witness: the list [1] was rendered; mask 1 has no colour and covers
\* pixel 1 only, mask 2 is not listed and covers pixel 2; the canvas is white
\* at pixel 1 and transparent at pixel 2.
C10_Witness ==
    /\ Len(runs) = 1 /\ RunDone(runs[1]) /\ runs[1].sel = <<1>>
    /\ Len(mcMasks) = 2
    /\ mcMasks[1].color = NoColor
    /\ Covers(mcMasks[1], 1) /\ ~Covers(mcMasks[1], 2) /\ Covers(mcMasks[2], 2)
    /\ canvas[1] = <<255, 255, 255, 255>>
    /\ canvas[2] = Transparent

\* positions of the list whose mask exists, has PNG data that loads, and
\* covers p
UsableOver(sel, p) ==
    {k \in 1..Len(sel) : Covers(FindMask(mcMasks, sel[k]), p)}

\* run k ends in this step
RunEnds(k) ==
    /\ k \in 1..Len(runs')
    /\ RunDone(runs'[k])
    /\ k > Len(runs) \/ ~RunDone(runs[k])

\* C18: whatever entries of the list are missing, lack PNG data or fail to
\* load, the run goes through the whole list: when it ends, the canvas is set
\* to its buffer, in which every pixel covered by a usable listed mask has the
\* colour of the last such mask and every other pixel is transparent
C18_ContinuesPastErrors ==
    [][\A k \in 1..MaxRuns :
          RunEnds(k) =>
            /\ canvas' = runs'[k].out
            /\ \A p \in Pixels :
                 LET K == UsableOver(runs'[k].sel, p)
                 IN  runs'[k].out[p] =
                        IF K = {} THEN Transparent
                        ELSE MaskRgba(FindMask(mcMasks, runs'[k].sel[MaxOf(K)]))]_vars

\* C18 witness: the list [1, 2] was rendered to the end, the image of mask 1
\* failed to load, and the canvas shows mask 2 on the pixel it covers
C18_Witness ==
    /\ Len(runs) = 1 /\ RunDone(runs[1]) /\ runs[1].sel = <<1, 2>>
    /\ Len(mcMasks) = 2
    /\ mcMasks[1].mask_png.kind = "bad"
    /\ Covers(mcMasks[2], 1)
    /\ canvas[1] = MaskRgba(mcMasks[2])

-----------------------------------------------------------------------------
(* Properties of useImageSegmentation and InteractiveCanvas *)

DistinctIds(ms) == \A i, j \in 1..Len(ms) : ms[i].id = ms[j].id => i = j

\* ids of the masks of ms whose bitmap is set at the pixel
Covering(ms, pixel) == {ms[i].id : i \in {j \in 1..Len(ms) : ms[j].mask[pixel] > 0}}

\* id of the last mask of ms whose bitmap is set at the pixel
TopCover(ms, pixel) ==
    LET I == {j \in 1..Len(ms) : ms[j].mask[pixel] > 0}
    IN  IF I = {} THEN NoId ELSE ms[MaxOf(I)].id

\* no loadMasks is running and every mask of the list has its own canvas
AllLoaded ==
    /\ loads = <<>>
    /\ DistinctIds(masks)
    /\ \A i \in 1..Len(masks) :
          maskCanvases[masks[i].id] = [has |-> TRUE, px |-> masks[i].mask]

\* the result of the point query as a list of ids
QueryResult(x) ==
    LET found == GetClickedMask(masks, maskCanvases, x)
    IN  IF found = NoId THEN {} ELSE {found}

\* C3 as stated: the point query returns every mask covering the pixel, and
\* nothing for a pixel no mask covers
C3_Original ==
    (StageShown /\ AllLoaded) =>
        \A x \in StageXs :
            /\ Covering(masks, ClickPixel(x)) \subseteq QueryResult(x)
            /\ Covering(masks, ClickPixel(x)) = {} => QueryResult(x) = {}

\* C3: once the mask canvases are loaded, the point query returns exactly one
\* id, that of the topmost (last in list order) mask whose bitmap is set at
\* the pixel, and no id for a pixel that no mask covers
C3_TopmostOnly ==
    (StageShown /\ AllLoaded) =>
        \A x \in StageXs :
            GetClickedMask(masks, maskCanvases, x) = TopCover(masks, ClickPixel(x))

C3_Witness ==
    /\ StageShown /\ AllLoaded
    /\ Len(masks) = 2
    /\ lastClick.pixel \in Pixels
    /\ Covering(masks, lastClick.pixel) = {masks[1].id, masks[2].id}
    /\ lastClick.found = masks[2].id

\* C5: when segmentImage fails (an error body, a rejected or timed out call),
\* the step that handles it leaves the mask list and the image as they were,
\* sets an error message and clears the loading flag; generateMasks can then
\* be called again
C5_FailureKeepsMasks ==
    [][(pending' = pending - 1 /\ lastResponse'.kind # "ok") =>
          /\ masks' = masks
          /\ image' = image
          /\ error' # "null"
          /\ loading' = FALSE]_vars

C5_Witness ==
    /\ lastResponse.kind \in {"error", "throw"}
    /\ Len(masks) > 0
    /\ error # "null"
    /\ ~loading
    /\ image
    /\ pending = 0

\* ids and bitmaps of a mask list
MaskData(ms) == [i \in 1..Len(ms) |-> <<ms[i].id, ms[i].mask>>]

\* C6: every step that changes the ids or bitmaps of the mask list either
\* empties it or installs exactly the masks of the response just received, in
\* order and unselected; it never keeps masks of the list it replaces
C6_WholeBatchReplaced ==
    [][MaskData(masks') # MaskData(masks) =>
          \/ masks' = <<>>
          \/ /\ lastResponse'.kind = "ok"
             /\ Len(masks') = Len(lastResponse'.masks)
             /\ \A i \in 1..Len(masks') :
                   /\ masks'[i].mask = lastResponse'.masks[i]
                   /\ ~masks'[i].selected
                   /\ masks'[i].color = NoColor]_vars

C6_Witness ==
    /\ nGens = 2 /\ pending = 0
    /\ lastResponse.kind = "ok"
    /\ Len(prevBatch) = 2
    /\ Len(masks) = 1
    /\ masks[1].mask = lastResponse.masks[1]
    /\ masks[1].mask # prevBatch[1].mask
    /\ masks[1].mask # prevBatch[2].mask

\* C7 as stated: a point query made at any moment answers as the complete
\* list replaced by the last batch write or as the complete current list
C7_Original ==
    (StageShown /\ DistinctIds(masks) /\ DistinctIds(prevBatch)) =>
        \A x \in StageXs :
            GetClickedMask(masks, maskCanvases, x)
                \in {TopCover(masks, ClickPixel(x)), TopCover(prevBatch, ClickPixel(x))}

\* C15 as stated: after every mask generation no two masks of the list have
\* the same id
C15_Original == DistinctIds(masks)

\* C17: every request to the segmentation service belongs to its own
\* generateMasks call, and the step that handles a failed or timed out request
\* sets the error message and sends no further request
C17_NoAutomaticRetry ==
    [][/\ nCalls' <= nGens'
       /\ (pending' = pending - 1 /\ lastResponse'.kind # "ok") =>
             (error' # "null" /\ nCalls' = nCalls)]_vars

C17_Witness ==
    /\ lastResponse.kind = "throw"
    /\ error = "Failed to segment image"
    /\ pending = 0
    /\ nGens = 1 /\ nCalls = 1

-----------------------------------------------------------------------------
(* Properties of getClickedMask *)

\* the image x coordinate of the query lies on the image
InRange(x) == ImageX(x) \in 0..(NPix - 1)

SmallestCovers(ms, pixel) ==
    LET I == {i \in 1..Len(ms) : ms[i].mask[pixel] > 0}
    IN  {ms[i].id : i \in {k \in I : \A j \in I : Area(ms[k].mask) <= Area(ms[j].mask)}}

\* C12 as stated: when several masks cover the point, the mask reported is
\* a covering mask of least area
C12_Original ==
    (query.asked /\ InRange(query.x) /\ query.found # NoId) =>
        query.found \in SmallestCovers(query.ms, ClickPixel(query.x))

\* C12: when several masks cover the point, the mask reported is the one
\* that comes last in the mask list, whatever the areas of the masks
C12_LastInListFirst ==
    (query.asked /\ InRange(query.x)) =>
        query.found = TopCover(query.ms, ClickPixel(query.x))

C12_Witness ==
    /\ query.asked /\ InRange(query.x)
    /\ Len(query.ms) = 2
    /\ Covering(query.ms, ClickPixel(query.x)) = {query.ms[1].id, query.ms[2].id}
    /\ Area(query.ms[1].mask) < Area(query.ms[2].mask)
    /\ query.found = query.ms[2].id

-----------------------------------------------------------------------------
(* Properties of the selection and colour operations *)

\* C13: no click (plain, Shift, Shift+right), colour application, selection
\* clearing or mask canvas load changes the id or the bitmap of a mask, or the
\* number or order of the masks
C13_MasksImmutable ==
    [][MaskData(masks') = MaskData(masks)]_vars

C13_Witness ==
    /\ Len(masks) = 2
    /\ lastClick.found = masks[1].id
    /\ masks[1].selected
    /\ masks[1].color # NoColor
    /\ masks[2].color = NoColor

\* the step is a click with the given modifier keys that found a mask
ClickFound(shift, right) ==
    /\ lastClick'.found # NoId
    /\ \E x \in StageXs : StageClick(x, shift, right)

\* C19: a Shift+click on a mask leaves that mask selected and the selected
\* flag of every other mask as it was
C19_ShiftClickAdds ==
    [][ClickFound(TRUE, FALSE) =>
          /\ Len(masks') = Len(masks)
          /\ \A i \in 1..Len(masks) :
                masks'[i].selected =
                    (masks[i].id = lastClick'.found \/ masks[i].selected)]_vars

C19_Witness ==
    /\ Len(masks) = 2
    /\ masks[1].selected /\ masks[2].selected
    /\ lastClick.found # NoId

\* C20 as stated: a Shift+right-click on a mask leaves that mask unselected
\* and the selected flag of every other mask as it was
C20_Original ==
    [][ClickFound(TRUE, TRUE) =>
          /\ Len(masks') = Len(masks)
          /\ \A i \in 1..Len(masks) :
                masks'[i].selected =
                    (masks[i].id # lastClick'.found /\ masks[i].selected)]_vars

\* indices of the selected masks of a list
SelectedAt(ms) == {i \in 1..Len(ms) : ms[i].selected}

\* C26 as stated: immediately after a plain click on a mask at most one mask
\* is selected, and a selected mask is the clicked one
C26_Original ==
    [][ClickFound(FALSE, FALSE) =>
          /\ Cardinality(SelectedAt(masks')) <= 1
          /\ \A i \in SelectedAt(masks') : masks'[i].id = lastClick'.found]_vars

-----------------------------------------------------------------------------
(* Properties of the frontend2 App *)

\* C14 as stated: every mask id of a render request sent for an image is the
\* id of a mask of that image
C14_Original ==
    lastRender.img # NoImage => lastRender.ids \subseteq MaskIdsOf(lastRender.img)

\* C16 as stated: once the delete of the selected image has succeeded and the
\* selection has been cleared for it, the state holds neither that image's id,
\* nor its masks, nor a rendered output of it
C16_Original ==
    \A i \in cleared :
        /\ imageId # i
        /\ masksOf # i
        /\ renderedImage.img # i

\* C22 as stated: when every response has arrived and no request has failed,
\* renderedImage is the result of the last render request, and null when no
\* mask is selected or no image is set
C22_Original ==
    (ops = <<>> /\ ~appError) =>
        renderedImage = IF imageId = NoImage \/ SelectedIds(maskSelections) = {}
                        THEN NoRendered
                        ELSE lastRender

\* C23 as stated: the toggle made when the mask lookup of a point-click
\* returns leaves the entry of every other mask as it is at that moment
C23_Original ==
    [][\A k \in 1..MaxInFlight : \A maskId \in AllMaskIds :
          (ImageClickSettled(k, TRUE, maskId) /\ HasAppMask(ops[k].cMasks, maskId))
              => \A m \in AllMaskIds \ {maskId} : maskSelections'[m] = maskSelections[m]]_vars

\* C24 as stated: once every response has arrived, masks is empty when imageId
\* is null and is never the mask list of an image other than imageId
C24_Original ==
    ops = <<>> =>
        /\ imageId = NoImage => appMasks = <<>>
        /\ masksOf \in {NoImage, imageId}

\* C25 as stated: from a reset until the next upload or load is started, no
\* image and no mask is in the state
C25_Original ==
    wasReset => (imageId = NoImage /\ ~currentImage /\ appMasks = <<>>)

\* every mask of the list ms is selected in sel
EveryMaskSelected(sel, ms) == \A k \in 1..Len(ms) : sel[ms[k]] = "on"

\* C27 as stated: Select All pressed while not every mask is selected leaves
\* every mask of the image selected; pressed while every mask is selected it
\* leaves no mask selected
C27_Original ==
    [][GridSelectAll =>
          IF EveryMaskSelected(maskSelections, appMasks)
          THEN SelectedIds(maskSelections') = {}
          ELSE EveryMaskSelected(maskSelections', appMasks)]_vars

\* the masks of the list ms that are selected in sel
SelectedMasks(sel, ms) == {k \in 1..Len(ms) : sel[ms[k]] = "on"}

\* C29 as stated: while the grid is shown and its state has settled, the
\* select-all indicator is 'none' exactly when no mask is selected, 'all'
\* exactly when a mask is selected and as many masks are selected as there are
\* masks, and 'some' otherwise
C29_Original ==
    GridShown =>
        LET n == Cardinality(SelectedMasks(maskSelections, appMasks))
            state == SelectAllState(maskSelections, appMasks)
        IN  /\ state = "none" <=> n = 0
            /\ state = "all" <=> (n > 0 /\ n = Len(appMasks))
            /\ state = "some" <=> (n > 0 /\ n < Len(appMasks))

\* isSelected of every mask id, an absent entry reading as false
Flags(sel) == [m \in AllMaskIds |-> sel[m] = "on"]

\* the step toggles mask maskId: a MaskItem of the grid, or the response of a
\* point-click lookup
TogglesMask(maskId) ==
    \/ GridToggle(maskId)
    \/ \E k \in 1..MaxInFlight :
          ImageClickSettled(k, TRUE, maskId) /\ HasAppMask(ops[k].cMasks, maskId)

\* C30 as stated: a toggle of the mask that was toggled just before restores
\* the isSelected flag of every mask to its value before the two toggles
C30_Original ==
    [][\A maskId \in AllMaskIds :
          (TogglesMask(maskId) /\ lastToggle.id = maskId)
              => Flags(maskSelections') = Flags(lastToggle.before)]_vars

-----------------------------------------------------------------------------
(* Properties of pollForMasks *)

\* C21: pollForMasks sends at most 30 status requests, stores masks only from
\* a completed, non-empty response, gives up only after 30 requests, and once
\* called always ends by storing the masks or by the timeout error
C21_BoundedPolling ==
    /\ [](poll.requests <= MaxAttempts)
    /\ [](poll.phase = "stored" => poll.last = "completed")
    /\ [](poll.phase = "timeout" => poll.requests = MaxAttempts)
    /\ (poll.phase # "idle" ~> poll.phase \in {"stored", "timeout"})

C21_Witness ==
    /\ poll.phase = "timeout"
    /\ poll.requests = MaxAttempts
    /\ poll.last = "throw"

-----------------------------------------------------------------------------
(* Properties of the confirmation dialog *)

\* C28: a DELETE request is sent only by the Delete button of the open dialog,
\* one request, for the image the dialog asks about; Cancel sends none; the
\* dialog is closed after either button
C28_DeleteOnlyOnConfirm ==
    [][/\ dialog'.sent # dialog.sent =>
             /\ HandleConfirm
             /\ dialog'.sent = Append(dialog.sent, dialog.onConfirm)
       /\ HandleCancel => (dialog'.sent = dialog.sent /\ ~dialog'.isOpen)
       /\ HandleConfirm => ~dialog'.isOpen]_vars

C28_Witness ==
    /\ ~dialog.isOpen
    /\ dialog.shows = 3
    /\ dialog.sent = <<2>>
    /\ dialog.onConfirm = 1

-----------------------------------------------------------------------------
(* Properties of the toggle *)

\* the two toggle functions applied to their own result: the second toggle
\* restores the isSelected flag of every mask, a toggle changes the colour of
\* no entry that has one, and toggleMaskSelection leaves the selections alone
\* for an id that is not in the mask list
ToggleIsInvolution ==
    /\ toggling.n = 2 =>
          \A m \in AllMaskIds : IsSelected(toggling.twice[m]) = IsSelected(toggling.sel[m])
    /\ toggling.n >= 1 =>
          \A m \in AllMaskIds :
              toggling.sel[m].present =>
                  /\ toggling.once[m].present
                  /\ toggling.once[m].color = toggling.sel[m].color
    /\ toggling.n = 2 =>
          \A m \in AllMaskIds :
              toggling.once[m].present =>
                  /\ toggling.twice[m].present
                  /\ toggling.twice[m].color = toggling.once[m].color
    /\ (toggling.n >= 1 /\ ~HasAppMask(toggling.ms, toggling.id)) =>
          toggling.once = toggling.sel

\* a selected entry with a picked colour was toggled twice
ToggledTwice ==
    /\ toggling.n = 2
    /\ HasAppMask(toggling.ms, toggling.id)
    /\ toggling.sel[toggling.id].present
    /\ toggling.sel[toggling.id].isSelected
    /\ toggling.sel[toggling.id].color = PickedColor
    /\ ~toggling.once[toggling.id].isSelected

====
